---- MODULE Spec2Model ----
(***************************************************************************)
(* The real-time layer of CognEdgeTeams-Back (services/UserService.js):    *)
(* the socket.io main namespace with its in-memory presence registry       *)
(* (onlineUsers) and the /video-conference namespace with its in-memory    *)
(* meeting store (meetingParticipants) and its meeting:<id> rooms.         *)
(*                                                                         *)
(* Every handler runs to completion on node's single thread, so each       *)
(* handler is one action.  `out` is the sequence of emits the last handler *)
(* made, in program order; `last` is the inbound event it handled.         *)
(*                                                                         *)
(* Strings the code takes apart (the email) are tuples of one-character    *)
(* strings; a display name is such a tuple too, and the empty tuple stands *)
(* for a full_name that is undefined or "" (both falsy under ||).          *)
(* A JS Map is a function whose DOMAIN is the set of keys; the insertion   *)
(* order of a Map is not modelled, so a roster is the set of its records.  *)
(* connectedAt (a timestamp) is not modelled.                              *)
(***************************************************************************)
EXTENDS Integers, Sequences, FiniteSets, TLC

\* ------------------------------------------------------------------ bounds
\* sockets that can be connected at once to /video-conference and to the
\* main namespace; the id of a closed socket can be handed out again
NumSockets == 2
NumMainSockets == 3
\* HTTP requests that can be in flight at once
NumRequests == 2

SocketName == <<"s1", "s2", "s3", "s4", "s5">>

\* socket ids of the /video-conference namespace and of the main namespace
SocketIds == {SocketName[i] : i \in 1..NumSockets}
MainSocketIds == {SocketName[i] : i \in 1..NumMainSockets}
MeetingIds == {"M1", "M2"}
\* room ids of /signaling and document ids of /docs
RoomIds == {"R1", "R2"}
DocIds == {"D1"}
PeerIds == {"peerA"}
ConversationIds == {"c1"}
RequestName == <<"q1", "q2", "q3", "q4">>
ReqIds == {RequestName[i] : i \in 1..NumRequests}

\* JS undefined / null, as a value of a payload field or of peer_id
Undefined == "undefined"
Null == "null"
\* an event emitted with no argument at all (data === undefined)
NoData == [absent |-> TRUE]

\* keys a client can make the store and the rooms use: `meeting:${undefined}`
MeetingKeys == MeetingIds \cup {Undefined}

\* the principals the auth oracle can return (socket.user): one with a
\* full_name in its metadata, one without
UserAnn == [id |-> "u1", email |-> <<"a", "l", "@", "x">>, full_name |-> <<"A", "n", "n">>]
UserBo == [id |-> "u2", email |-> <<"b", "o", "@", "y">>, full_name |-> <<>>]
Users == {UserAnn, UserBo}

\* the principal behind the token that the client of /video-conference socket s
\* presents at its handshake
SocketIndex(s) == CHOOSE i \in DOMAIN SocketName : SocketName[i] = s
TokenUser(s) == IF SocketIndex(s) % 2 = 1 THEN UserAnn ELSE UserBo

NoUser == [id |-> "none", email |-> <<>>, full_name |-> <<>>]

VARIABLES
  vcSockets,            \* /video-conference: socket id -> socket.user, NoUser when not connected
  rooms,                \* /video-conference adapter: meeting key -> members of `meeting:<key>`
  meetingParticipants,  \* Map meetingId -> Map socket.id -> participant record
  mainSockets,          \* main namespace: socket id -> socket.user, NoUser when not connected
  onlineUsers,          \* Map user id -> presence record
  sigSockets,           \* /signaling: socket id -> socket.user, NoUser when not connected
  sigRooms,             \* /signaling adapter: roomId -> members of the room
  docSockets,           \* /docs: socket id -> socket.user, NoUser when not connected
  docRooms,             \* /docs adapter: docId -> members of `doc:<docId>`
  taskSockets,          \* /tasks: socket id -> socket.user, NoUser when not connected
  config,               \* whether the Supabase client exists, and ALLOW_ANON
  auth,                 \* namespace -> socket id -> what authenticateSocket last decided
  convRooms,            \* main namespace adapter: conversation id -> members of `conversation:<id>`
  db,                   \* the Supabase tables the routes read and write
  reqs,                 \* HTTP requests in flight: request id -> where its handler stands
  out,                  \* emits of the last handler, in order
  last                  \* the inbound event the last handler handled

vars == <<vcSockets, rooms, meetingParticipants, mainSockets, onlineUsers,
          sigSockets, sigRooms, docSockets, docRooms, taskSockets, config, auth,
          convRooms, db, reqs, out, last>>

vcVars == <<vcSockets, rooms, meetingParticipants>>
mainVars == <<mainSockets, onlineUsers>>
sigVars == <<sigSockets, sigRooms>>
docVars == <<docSockets, docRooms>>
authVars == <<config, auth>>
dbVars == <<db, reqs>>
otherVars == <<sigVars, docVars, taskSockets, authVars, convRooms, dbVars>>

\* ----------------------------------------------------------------- helpers

\* a destructured field: undefined when the payload does not carry it
Field(data, f) == IF f \in DOMAIN data THEN data[f] ELSE Undefined

\* `const { ... } = data` throws a TypeError when data is undefined
Destructures(data) == "absent" \notin DOMAIN data

RECURSIVE SplitBefore(_, _)
\* str.split(sep)[0]: the characters before the first sep, all of them if none
SplitBefore(str, sep) ==
  IF str = <<>> \/ Head(str) = sep THEN <<>>
  ELSE <<Head(str)>> \o SplitBefore(Tail(str), sep)

\* socket.user.user_metadata?.full_name || socket.user.email.split('@')[0]
ResolveName(user) ==
  IF user.full_name # <<>> THEN user.full_name ELSE SplitBefore(user.email, "@")

Values(map) == {map[k] : k \in DOMAIN map}

\* Map.prototype.set / delete
MapSet(map, k, v) == [x \in DOMAIN map \cup {k} |-> IF x = k THEN v ELSE map[x]]
MapDelete(map, k) == [x \in DOMAIN map \ {k} |-> map[x]]

EmptyMap == [x \in {} |-> Null]

Emit(ev, to, payload) == [event |-> ev, to |-> to, payload |-> payload]

Inbound(nsp, ev, s, data, threw) ==
  [nsp |-> nsp, event |-> ev, socket |-> s, data |-> data, threw |-> threw]

VC == "/video-conference"
MAIN == "/"
SIGNALING == "/signaling"
DOCS == "/docs"
TASKS == "/tasks"

\* authenticateSocket has not run for the socket
NoHandshake == [token |-> Undefined, admitted |-> FALSE, user |-> NoUser]

\* SUPABASE_URL and SUPABASE_SERVICE_ROLE_KEY are set, ALLOW_ANON is not
Production == [supabase |-> TRUE, allowAnon |-> FALSE]

\* no handler of the request is running
Idle == [pc |-> "idle"]

\* the tables with no row; nextId is the id the next inserted participant row gets
EmptyDb == [meetings |-> {}, participants |-> {}, signaling |-> {}, nextId |-> 1]

\* the state after construction, under a given environment and over given tables
InitState(cfg, tables) ==
  /\ vcSockets = [s \in SocketIds |-> NoUser]
  /\ rooms = [m \in MeetingKeys |-> {}]
  /\ meetingParticipants = EmptyMap
  /\ mainSockets = [s \in MainSocketIds |-> NoUser]
  /\ onlineUsers = EmptyMap
  /\ sigSockets = [s \in SocketIds |-> NoUser]
  /\ sigRooms = [r \in RoomIds \cup {Undefined} |-> {}]
  /\ docSockets = [s \in SocketIds |-> NoUser]
  /\ docRooms = [d \in DocIds \cup {Undefined} |-> {}]
  /\ taskSockets = [s \in MainSocketIds |-> NoUser]
  /\ config = cfg
  /\ auth = [n \in {MAIN, VC} |-> [s \in SocketIds \cup MainSocketIds |-> NoHandshake]]
  /\ convRooms = [c \in ConversationIds \cup {Undefined} |-> {}]
  /\ db = tables
  /\ reqs = [q \in ReqIds |-> Idle]
  /\ out = <<>>
  /\ last = Inbound(VC, "none", Undefined, NoData, FALSE)

InitConfig(cfg) == InitState(cfg, EmptyDb)

Init == InitConfig(Production)

\* ------------------------------------------- /video-conference namespace

Connected(s) == vcSockets[s] # NoUser

\* mutant of SocketTo: io.to(room), which does not leave the sender out
SocketToWholeRoom(roomsNow, m, s) == roomsNow[m]

\* socket.to(`meeting:${m}`): the members of the room other than the sender
SocketTo(roomsNow, m, s) == roomsNow[m] \ {s}

\* mutant of ParticipantInfo: the record is identified by the user, not by the
\* socket
ParticipantInfoUserId(s) ==
  [ id |-> vcSockets[s].id,
    user_id |-> vcSockets[s].id,
    user_name |-> ResolveName(vcSockets[s]),
    user_email |-> vcSockets[s].email,
    peer_id |-> Null ]

\* the record join-meeting stores and announces
ParticipantInfo(s) ==
  [ id |-> s,
    user_id |-> vcSockets[s].id,
    user_name |-> ResolveName(vcSockets[s]),
    user_email |-> vcSockets[s].email,
    peer_id |-> Null ]

\* mutant of ExistingParticipants: the filter is missing
ExistingParticipantsUnfiltered(participants, s) == Values(participants)

\* Array.from(participants.values()).filter(p => p.id !== socket.id)
ExistingParticipants(participants, s) == {p \in Values(participants) : p.id # s}

\* the handler threw on its first statement: nothing was changed or emitted
Threw(ev, s, data) ==
  /\ out' = <<>>
  /\ last' = Inbound(VC, ev, s, data, TRUE)
  /\ UNCHANGED <<vcVars, mainVars, otherVars>>

\* videoConference.on('connection'): only logs and registers the handlers
VcConnection(s, u) ==
  /\ ~Connected(s)
  /\ vcSockets' = [vcSockets EXCEPT ![s] = u]
  /\ out' = <<>>
  /\ last' = Inbound(VC, "connection", s, NoData, FALSE)
  /\ UNCHANGED <<rooms, meetingParticipants, mainVars, sigVars, docVars, taskSockets, config, convRooms, dbVars>>

\* the connection of a socket whose handshake is not looked at
VcConnect(s, u) == VcConnection(s, u) /\ UNCHANGED auth

\* mutant of JoinStore: the meeting's Map is created but the record is not set
JoinStoreEmptyMeeting(store, m, s) ==
  IF m \in DOMAIN store THEN store ELSE MapSet(store, m, EmptyMap)

\* the store after join-meeting: create the meeting's Map if absent, set the record
JoinStore(store, m, s) ==
  LET withMeeting == IF m \in DOMAIN store THEN store ELSE MapSet(store, m, EmptyMap)
  IN  MapSet(withMeeting, m, MapSet(withMeeting[m], s, ParticipantInfo(s)))

JoinMeeting(s, data) ==
  /\ Connected(s)
  /\ IF ~Destructures(data) THEN Threw("join-meeting", s, data)
     ELSE LET m == Field(data, "meetingId") IN
       /\ rooms' = [rooms EXCEPT ![m] = @ \cup {s}]
       /\ meetingParticipants' = JoinStore(meetingParticipants, m, s)
       /\ out' = << Emit("existing-participants", {s},
                         ExistingParticipants(meetingParticipants'[m], s)),
                    Emit("participant-joined", SocketTo(rooms', m, s), ParticipantInfo(s)) >>
       /\ last' = Inbound(VC, "join-meeting", s, data, FALSE)
       /\ UNCHANGED <<vcSockets, mainVars, otherVars>>

\* mutant of SetPeerId: every record of the meeting gets the peer id
SetPeerIdAll(store, m, s, peerId) ==
  IF m \in DOMAIN store /\ s \in DOMAIN store[m]
  THEN [store EXCEPT ![m] = [k \in DOMAIN store[m] |-> [store[m][k] EXCEPT !.peer_id = peerId]]]
  ELSE store

\* the store after peer-connected: only the sender's own record can change
SetPeerId(store, m, s, peerId) ==
  IF m \in DOMAIN store /\ s \in DOMAIN store[m]
  THEN [store EXCEPT ![m][s].peer_id = peerId]
  ELSE store

PeerConnected(s, data) ==
  /\ Connected(s)
  /\ IF ~Destructures(data) THEN Threw("peer-connected", s, data)
     ELSE LET m == Field(data, "meetingId")
              peerId == Field(data, "peerId") IN
       /\ meetingParticipants' = SetPeerId(meetingParticipants, m, s, peerId)
       /\ out' = << Emit("peer-connected", SocketTo(rooms, m, s),
                         [participantId |-> s, peerId |-> peerId]) >>
       /\ last' = Inbound(VC, "peer-connected", s, data, FALSE)
       /\ UNCHANGED <<vcSockets, rooms, mainVars, otherVars>>

\* the list get-participants answers with
GetRoster(store, m, s) ==
  IF m \in DOMAIN store THEN ExistingParticipants(store[m], s) ELSE {}

\* mutant of GetParticipants: no has() guard, so reading the Map of a meeting the
\* store does not hold throws
GetParticipantsUnguarded(s, data) ==
  /\ Connected(s)
  /\ IF ~Destructures(data) \/ Field(data, "meetingId") \notin DOMAIN meetingParticipants
     THEN Threw("get-participants", s, data)
     ELSE /\ out' = << Emit("existing-participants", {s},
                            ExistingParticipants(
                              meetingParticipants[Field(data, "meetingId")], s)) >>
          /\ last' = Inbound(VC, "get-participants", s, data, FALSE)
          /\ UNCHANGED <<vcVars, mainVars, otherVars>>

GetParticipants(s, data) ==
  /\ Connected(s)
  /\ IF ~Destructures(data) THEN Threw("get-participants", s, data)
     ELSE LET m == Field(data, "meetingId") IN
       /\ out' = << Emit("existing-participants", {s},
                         GetRoster(meetingParticipants, m, s)) >>
       /\ last' = Inbound(VC, "get-participants", s, data, FALSE)
       /\ UNCHANGED <<vcVars, mainVars, otherVars>>

\* the store after leave-meeting: the handler does not touch meetingParticipants
LeaveStore(store, m, s) == store

LeaveMeeting(s, data) ==
  /\ Connected(s)
  /\ IF ~Destructures(data) THEN Threw("leave-meeting", s, data)
     ELSE LET m == Field(data, "meetingId") IN
       /\ rooms' = [rooms EXCEPT ![m] = @ \ {s}]
       /\ meetingParticipants' = LeaveStore(meetingParticipants, m, s)
       /\ out' = << Emit("participant-left", SocketTo(rooms', m, s),
                         [id |-> s, user_id |-> vcSockets[s].id]) >>
       /\ last' = Inbound(VC, "leave-meeting", s, data, FALSE)
       /\ UNCHANGED <<vcSockets, mainVars, otherVars>>

\* the meetings whose Map holds a record under the socket's id
MeetingsOf(store, s) == {m \in DOMAIN store : s \in DOMAIN store[m]}

\* mutant of DisconnectStore: an emptied meeting keeps its (empty) Map
DisconnectStoreKeepsEmpty(store, s) ==
  [m \in DOMAIN store |-> IF s \in DOMAIN store[m] THEN MapDelete(store[m], s) ELSE store[m]]

\* the store after the disconnect handler's forEach
DisconnectStore(store, s) ==
  LET keep == {m \in DOMAIN store :
                 ~(m \in MeetingsOf(store, s) /\ DOMAIN store[m] = {s})}
  IN  [m \in keep |-> IF s \in DOMAIN store[m] THEN MapDelete(store[m], s) ELSE store[m]]

\* all orders in which a forEach can visit the set S
Orders(S) ==
  {q \in [1..Cardinality(S) -> S] : \A i, j \in DOMAIN q : i # j => q[i] # q[j]}

\* socket.io takes a closing socket out of its rooms and of the namespace
\* before 'disconnect' is emitted; the handler then prunes the store
VcDisconnect(s) ==
  /\ Connected(s)
  /\ vcSockets' = [vcSockets EXCEPT ![s] = NoUser]
  /\ rooms' = [m \in MeetingKeys |-> rooms[m] \ {s}]
  /\ meetingParticipants' = DisconnectStore(meetingParticipants, s)
  /\ \E order \in Orders(MeetingsOf(meetingParticipants, s)) :
       out' = [i \in DOMAIN order |->
                 Emit("participant-left", SocketTo(rooms', order[i], s),
                      [id |-> s, user_id |-> vcSockets[s].id])]
  /\ last' = Inbound(VC, "disconnect", s, NoData, FALSE)
  /\ UNCHANGED <<mainVars, otherVars>>

\* the field that carries the body of each WebRTC signalling event
BodyField(ev) ==
  CASE ev = "webrtc-offer" -> "offer"
    [] ev = "webrtc-answer" -> "answer"
    [] ev = "webrtc-ice-candidate" -> "candidate"

\* mutant of RelayPayload: the sender is named by its user id, as the
\* /signaling namespace does, instead of by its socket id
RelayPayloadUserId(ev, s, data) ==
  [x \in {BodyField(ev), "from", "fromParticipantId"} |->
     CASE x = "from" -> ResolveName(vcSockets[s])
       [] x = "fromParticipantId" -> vcSockets[s].id
       [] OTHER -> Field(data, BodyField(ev))]

\* the object a webrtc-* handler emits: { <body>, from, fromParticipantId }
RelayPayload(ev, s, data) ==
  [x \in {BodyField(ev), "from", "fromParticipantId"} |->
     CASE x = "from" -> ResolveName(vcSockets[s])
       [] x = "fromParticipantId" -> s
       [] OTHER -> Field(data, BodyField(ev))]

\* the three webrtc-* handlers have the same body but for the event's name
WebrtcRelay(ev, s, data) ==
  /\ Connected(s)
  /\ IF ~Destructures(data) THEN Threw(ev, s, data)
     ELSE /\ out' = << Emit(ev, SocketTo(rooms, Field(data, "meetingId"), s),
                            RelayPayload(ev, s, data)) >>
          /\ last' = Inbound(VC, ev, s, data, FALSE)
          /\ UNCHANGED <<vcVars, mainVars, otherVars>>

WebrtcOffer(s, data) == WebrtcRelay("webrtc-offer", s, data)
WebrtcAnswer(s, data) == WebrtcRelay("webrtc-answer", s, data)
WebrtcIceCandidate(s, data) == WebrtcRelay("webrtc-ice-candidate", s, data)

\* ------------------------------------------------------- main namespace

MainConnected(s) == mainSockets[s] # NoUser

\* mutant of BroadcastEmit: io.emit, which reaches the sender too
BroadcastEmitAll(sockets, s) == {x \in DOMAIN sockets : sockets[x] # NoUser}

\* socket.broadcast.emit: every socket of the namespace but the sender
BroadcastEmit(sockets, s) == {x \in DOMAIN sockets : sockets[x] # NoUser} \ {s}

\* the record both connection handlers store under socket.user.id
PresenceRecord(s, u) == [id |-> u.id, email |-> u.email, socketId |-> s]

\* io.on('connection') is registered twice; both listeners run, in order, for
\* every new socket: set + user-online + online-users-list, then set again
MainConnection(s, u) ==
  /\ ~MainConnected(s)
  /\ mainSockets' = [mainSockets EXCEPT ![s] = u]
  /\ LET first == MapSet(onlineUsers, u.id, PresenceRecord(s, u)) IN
       /\ onlineUsers' = MapSet(first, u.id, PresenceRecord(s, u))
       /\ out' = << Emit("user-online", BroadcastEmit(mainSockets', s),
                         [userId |-> u.id, userEmail |-> u.email]),
                    Emit("online-users-list", {s},
                         [users |-> {[id |-> r.id, email |-> r.email] : r \in Values(first)}]) >>
  /\ last' = Inbound(MAIN, "connection", s, NoData, FALSE)
  /\ UNCHANGED <<vcVars, sigVars, docVars, taskSockets, config, convRooms, dbVars>>

\* the connection of a socket whose handshake is not looked at
MainConnect(s, u) == MainConnection(s, u) /\ UNCHANGED auth

\* redis is null, so the handler does nothing
JoinPresence(s) ==
  /\ MainConnected(s)
  /\ out' = <<>>
  /\ last' = Inbound(MAIN, "join-presence", s, NoData, FALSE)
  /\ UNCHANGED <<vcVars, mainVars, otherVars>>

\* both 'disconnect' listeners run; the second only logs
MainDisconnect(s) ==
  /\ MainConnected(s)
  /\ mainSockets' = [mainSockets EXCEPT ![s] = NoUser]
  /\ onlineUsers' = MapDelete(onlineUsers, mainSockets[s].id)
  /\ out' = << Emit("user-offline", BroadcastEmit(mainSockets', s),
                    [userId |-> mainSockets[s].id, userEmail |-> mainSockets[s].email]) >>
  /\ last' = Inbound(MAIN, "disconnect", s, NoData, FALSE)
  /\ UNCHANGED <<vcVars, otherVars>>

\* ----------------------------------------------------------------- inputs
MeetingData == [meetingId : MeetingIds]
\* the participantId a peer-connected payload names (the handler only logs it)
ParticipantIdsNamed == {SocketName[1]}
PeerData == [meetingId : MeetingIds, participantId : ParticipantIdsNamed, peerId : PeerIds]

Next ==
  \/ \E s \in SocketIds : VcConnect(s, TokenUser(s))
  \/ \E s \in SocketIds, data \in MeetingData : JoinMeeting(s, data)
  \/ \E s \in SocketIds, data \in PeerData : PeerConnected(s, data)
  \/ \E s \in SocketIds, data \in MeetingData \cup {NoData} : GetParticipants(s, data)
  \/ \E s \in SocketIds, data \in MeetingData : LeaveMeeting(s, data)
  \/ \E s \in SocketIds : VcDisconnect(s)

Spec == Init /\ [][Next]_vars

\* a WebRTC signalling payload: the body, the meeting, and possibly a target
\* named by `to` or by `toParticipantId`
Targets == {SocketName[1]}
WebrtcData(ev) ==
  LET base(m) == [x \in {"meetingId", BodyField(ev)} |-> IF x = "meetingId" THEN m ELSE "sdp"]
  IN  UNION { { base(m) }
              \cup { [x \in DOMAIN base(m) \cup {"to"} |->
                        IF x = "to" THEN tgt ELSE base(m)[x]] : tgt \in Targets }
              \cup { [x \in DOMAIN base(m) \cup {"toParticipantId"} |->
                        IF x = "toParticipantId" THEN tgt ELSE base(m)[x]] : tgt \in Targets }
            : m \in MeetingIds }

\* the signalling relay of the /video-conference namespace
NextRelay ==
  \/ \E s \in SocketIds : VcConnect(s, TokenUser(s))
  \/ \E s \in SocketIds, data \in MeetingData : JoinMeeting(s, data)
  \/ \E s \in SocketIds, data \in MeetingData : LeaveMeeting(s, data)
  \/ \E s \in SocketIds, data \in WebrtcData("webrtc-offer") : WebrtcOffer(s, data)
  \/ \E s \in SocketIds, data \in WebrtcData("webrtc-answer") : WebrtcAnswer(s, data)
  \/ \E s \in SocketIds, data \in WebrtcData("webrtc-ice-candidate") :
       WebrtcIceCandidate(s, data)
  \/ \E s \in SocketIds : VcDisconnect(s)

SpecRelay == Init /\ [][NextRelay]_vars

\* the presence registry of the main namespace
NextPresence ==
  \/ \E s \in MainSocketIds, u \in Users : MainConnect(s, u)
  \/ \E s \in MainSocketIds : JoinPresence(s)
  \/ \E s \in MainSocketIds : MainDisconnect(s)

SpecPresence == Init /\ [][NextPresence]_vars

\* ------------------------------------------------------------------ claims

Handled(ev) == last.nsp = VC /\ last.event = ev /\ ~last.threw
HandledNext(ev) == last'.nsp = VC /\ last'.event = ev /\ ~last'.threw

HasRecord(store, m, c) == m \in DOMAIN store /\ c \in DOMAIN store[m]

\* the records of a meeting's Map stored under keys other than c
OtherRecords(store, m, c) ==
  IF m \in DOMAIN store THEN {store[m][k] : k \in DOMAIN store[m] \ {c}} ELSE {}

\* the display name of a principal, as a client reads it: the full name if
\* there is one, else what stands before the '@' of the email
DisplayName(user) ==
  IF Len(user.full_name) > 0 THEN user.full_name
  ELSE LET at == CHOOSE i \in DOMAIN user.email :
                   user.email[i] = "@" /\ \A j \in 1..(i - 1) : user.email[j] # "@"
       IN  SubSeq(user.email, 1, at - 1)

\* the positions in `out` of the emits of event ev
EmitsOf(ev) == {i \in DOMAIN out : out[i].event = ev}

\* C1: once leave-meeting for M by connection c has been handled, the store
\* holds no record for c under M, and M has no entry if that left it empty.
C1_LeaveRemovesRecord ==
  Handled("leave-meeting") =>
    LET m == last.data.meetingId
        c == last.socket
    IN  /\ ~HasRecord(meetingParticipants, m, c)
        /\ m \in DOMAIN meetingParticipants => DOMAIN meetingParticipants[m] # {}

\* C2: the disconnect of c removes c's record from every meeting that held
\* one, deletes every meeting that this empties, and leaves all other
\* meetings and all records of other connections as they were.
C2_DisconnectPrunes ==
  [][ HandledNext("disconnect") =>
        LET c == last'.socket
            old == meetingParticipants
            new == meetingParticipants'
        IN  /\ DOMAIN new = {m \in DOMAIN old : DOMAIN old[m] # {c}}
            /\ \A m \in DOMAIN new :
                 /\ DOMAIN new[m] = DOMAIN old[m] \ {c}
                 /\ \A k \in DOMAIN new[m] : new[m][k] = old[m][k]
    ]_vars

\* c's record went from a meeting that survives with another connection's record
C2_Witness ==
  /\ Handled("disconnect")
  /\ Len(out) = 2
  /\ meetingParticipants # EmptyMap
  /\ DOMAIN meetingParticipants # MeetingIds

\* C3: join-meeting by c for M answers c with one roster holding exactly the
\* records of the other connections in M's Map, notifies every other member
\* of room meeting:M once with c's id and identity, never notifies c, and
\* emits the roster before the notice.
C3_JoinRosterThenNotice ==
  Handled("join-meeting") =>
    LET m == last.data.meetingId
        c == last.socket
        rosters == EmitsOf("existing-participants")
        notices == EmitsOf("participant-joined")
    IN  /\ Cardinality({i \in rosters : c \in out[i].to}) = 1
        /\ \A i \in rosters :
             /\ out[i].to = {c}
             /\ out[i].payload = OtherRecords(meetingParticipants, m, c)
        /\ \A r \in rooms[m] \ {c} :
             Cardinality({j \in notices : r \in out[j].to}) = 1
        /\ \A j \in notices :
             /\ c \notin out[j].to
             /\ out[j].payload.id = c
             /\ out[j].payload.user_id = vcSockets[c].id
             /\ out[j].payload.user_email = vcSockets[c].email
             /\ out[j].payload.user_name = DisplayName(vcSockets[c])
             /\ out[j].payload.peer_id = Null
        /\ \A i \in rosters, j \in notices : i < j

\* c joined a meeting that already had another participant in its room
C3_Witness ==
  /\ Handled("join-meeting")
  /\ \E i \in EmitsOf("existing-participants") : out[i].payload # {}
  /\ \E j \in EmitsOf("participant-joined") : out[j].to # {}

\* C6: peer-connected for a meeting in which the sender has no record raises
\* no error, changes nothing in the store and delivers nothing to anyone else.
C6_PeerConnectedMissIsNoOp ==
  [][ ( /\ last'.nsp = VC /\ last'.event = "peer-connected"
        /\ Destructures(last'.data)
        /\ ~HasRecord(meetingParticipants, last'.data.meetingId, last'.socket) )
      => /\ ~last'.threw
         /\ meetingParticipants' = meetingParticipants
         /\ \A i \in DOMAIN out' : out'[i].to \subseteq {last'.socket}
    ]_vars

\* C7: a roster sent to c in answer to get-participants or join-meeting never
\* holds a record whose id is c's, and holds every other record of the meeting.
C7_RosterExcludesRequester ==
  (Handled("get-participants") \/ Handled("join-meeting")) =>
    LET m == last.data.meetingId
        c == last.socket
    IN  /\ EmitsOf("existing-participants") # {}
        /\ \A i \in EmitsOf("existing-participants") :
             /\ out[i].to = {c}
             /\ \A p \in out[i].payload : p.id # c
             /\ OtherRecords(meetingParticipants, m, c) \subseteq out[i].payload

\* a requester that has a record of its own in the meeting gets the other one
C7_Witness ==
  /\ Handled("get-participants")
  /\ HasRecord(meetingParticipants, last.data.meetingId, last.socket)
  /\ out[1].payload # {}

\* C8: get-participants for a meeting without an entry in the store answers
\* the requester with an empty list, raises no error, and creates no entry.
C8_UnknownMeetingEmptyRoster ==
  [][ ( /\ last'.nsp = VC /\ last'.event = "get-participants"
        /\ Destructures(last'.data)
        /\ last'.data.meetingId \notin DOMAIN meetingParticipants )
      => /\ ~last'.threw
         /\ out' = << Emit("existing-participants", {last'.socket}, {}) >>
         /\ meetingParticipants' = meetingParticipants
    ]_vars

\* a connection without any record asks for a meeting the store does not hold
C8_Witness ==
  /\ Handled("get-participants")
  /\ last.data.meetingId \notin DOMAIN meetingParticipants
  /\ MeetingsOf(meetingParticipants, last.socket) = {}
  /\ out[1].payload = {}

\* ---------------------------------------------------- claims on presence

LiveMain == {s \in MainSocketIds : mainSockets[s] # NoUser}

\* C4: a principal with a live main-namespace connection has a presence
\* record, so the disconnect of a replaced older connection neither removes
\* the record nor announces the principal offline.
C4_LivePrincipalHasPresence ==
  /\ \A s \in LiveMain : mainSockets[s].id \in DOMAIN onlineUsers
  /\ (last.nsp = MAIN /\ last.event = "disconnect") =>
       \A i \in EmitsOf("user-offline") :
         \A s \in LiveMain : mainSockets[s].id # out[i].payload.userId

\* C5: once the connection of c for principal p is established the registry
\* holds exactly one record for p, with c's id; every other connected socket
\* of the namespace gets exactly one user-online for p and c gets none.
C5_RegisterOverwritesOneOnline ==
  (last.nsp = MAIN /\ last.event = "connection") =>
    LET c == last.socket
        p == mainSockets[c]
        online == {i \in EmitsOf("user-online") : out[i].payload.userId = p.id}
    IN  /\ Cardinality({k \in DOMAIN onlineUsers : onlineUsers[k].id = p.id}) = 1
        /\ p.id \in DOMAIN onlineUsers
        /\ onlineUsers[p.id].socketId = c
        /\ \A r \in LiveMain \ {c} : Cardinality({i \in online : r \in out[i].to}) = 1
        /\ \A i \in EmitsOf("user-online") : c \notin out[i].to

\* p already had a record held by an older, still connected socket, and a
\* third socket was connected to hear of it
C5_Witness ==
  /\ last.nsp = MAIN /\ last.event = "connection"
  /\ \E s \in LiveMain \ {last.socket} : mainSockets[s].id = mainSockets[last.socket].id
  /\ \E s \in LiveMain : mainSockets[s].id # mainSockets[last.socket].id

\* ------------------------------------------- claims on the WebRTC relay

WebrtcEvents == {"webrtc-offer", "webrtc-answer", "webrtc-ice-candidate"}

\* C9: a webrtc-offer/answer/ice-candidate of A for M reaches every other
\* member of room meeting:M as the same event with the body, A's display name
\* and A's connection id, and never comes back to A.
C9_WebrtcRelayedEnriched ==
  (last.nsp = VC /\ last.event \in WebrtcEvents /\ ~last.threw) =>
    LET a == last.socket
        m == last.data.meetingId
        body == BodyField(last.event)
    IN  /\ \A r \in rooms[m] \ {a} :
             \E i \in EmitsOf(last.event) :
               /\ r \in out[i].to
               /\ out[i].payload[body] = last.data[body]
               /\ out[i].payload.from = DisplayName(vcSockets[a])
               /\ out[i].payload.fromParticipantId = a
        /\ \A i \in DOMAIN out : a \notin out[i].to

\* a member of the room relays to another member
C9_Witness ==
  /\ last.nsp = VC /\ last.event \in WebrtcEvents
  /\ last.socket \in rooms[last.data.meetingId]
  /\ \E i \in DOMAIN out : out[i].to # {}

\* the target a payload names, under either field
TargetFields == {"to", "toParticipantId"}

\* C10: a relayed webrtc-* message that names a target carries that target
\* unchanged to every other member of the room.
C10_TargetCarriedThrough ==
  (last.nsp = VC /\ last.event \in WebrtcEvents /\ ~last.threw) =>
    \A i \in DOMAIN out :
      /\ out[i].to = rooms[last.data.meetingId] \ {last.socket}
      /\ out[i].to # {} =>
           \A f \in TargetFields \cap DOMAIN last.data :
             f \in DOMAIN out[i].payload /\ out[i].payload[f] = last.data[f]

\* ================================================= /signaling and /docs

\* a handler of namespace nsp threw: nothing was changed or emitted
ThrewIn(nsp, ev, s, data) ==
  /\ out' = <<>>
  /\ last' = Inbound(nsp, ev, s, data, TRUE)
  /\ UNCHANGED <<vcVars, mainVars, otherVars>>

\* socket.join(room): the adapter keeps a Set of socket ids per room
SocketJoin(roomsNow, r, s) == [roomsNow EXCEPT ![r] = @ \cup {s}]

\* mutant of SocketLeave: the membership is left as it was
SocketLeaveKeeps(roomsNow, r, s) == roomsNow

\* socket.leave(room)
SocketLeave(roomsNow, r, s) == [roomsNow EXCEPT ![r] = @ \ {s}]

\* what the adapter does when a socket closes: it leaves every room
LeaveAll(roomsNow, s) == [r \in DOMAIN roomsNow |-> roomsNow[r] \ {s}]

\* socket.user.user_metadata?.full_name || socket.user.email
NameOrEmail(user) == IF user.full_name # <<>> THEN user.full_name ELSE user.email

\* signaling.on('connection'): only registers the handlers
SigConnect(s, u) ==
  /\ sigSockets[s] = NoUser
  /\ sigSockets' = [sigSockets EXCEPT ![s] = u]
  /\ out' = <<>>
  /\ last' = Inbound(SIGNALING, "connection", s, NoData, FALSE)
  /\ UNCHANGED <<vcVars, mainVars, sigRooms, docVars, taskSockets, authVars, convRooms, dbVars>>

\* the argument of join-room / leave-room is the room id itself
JoinRoom(s, roomId) ==
  /\ sigSockets[s] # NoUser
  /\ sigRooms' = SocketJoin(sigRooms, roomId, s)
  /\ out' = << Emit("user-joined", SocketTo(sigRooms', roomId, s),
                    [user_id |-> sigSockets[s].id,
                     user_name |-> NameOrEmail(sigSockets[s])]) >>
  /\ last' = Inbound(SIGNALING, "join-room", s, [roomId |-> roomId], FALSE)
  /\ UNCHANGED <<vcVars, mainVars, sigSockets, docVars, taskSockets, authVars, convRooms, dbVars>>

LeaveRoom(s, roomId) ==
  /\ sigSockets[s] # NoUser
  /\ sigRooms' = SocketLeave(sigRooms, roomId, s)
  /\ out' = << Emit("user-left", SocketTo(sigRooms', roomId, s),
                    [user_id |-> sigSockets[s].id]) >>
  /\ last' = Inbound(SIGNALING, "leave-room", s, [roomId |-> roomId], FALSE)
  /\ UNCHANGED <<vcVars, mainVars, sigSockets, docVars, taskSockets, authVars, convRooms, dbVars>>

\* 'offer' and 'answer' read data.roomId, which throws when data is undefined
SigRelay(ev, s, data) ==
  /\ sigSockets[s] # NoUser
  /\ IF ~Destructures(data) THEN ThrewIn(SIGNALING, ev, s, data)
     ELSE /\ out' = << Emit(ev, SocketTo(sigRooms, Field(data, "roomId"), s),
                            [x \in {ev, "from"} |->
                               IF x = "from" THEN sigSockets[s].id ELSE Field(data, ev)]) >>
          /\ last' = Inbound(SIGNALING, ev, s, data, FALSE)
          /\ UNCHANGED <<vcVars, mainVars, otherVars>>

Offer(s, data) == SigRelay("offer", s, data)
Answer(s, data) == SigRelay("answer", s, data)

\* the handler only logs; the adapter has already emptied the socket's rooms
SigDisconnect(s) ==
  /\ sigSockets[s] # NoUser
  /\ sigSockets' = [sigSockets EXCEPT ![s] = NoUser]
  /\ sigRooms' = LeaveAll(sigRooms, s)
  /\ out' = <<>>
  /\ last' = Inbound(SIGNALING, "disconnect", s, NoData, FALSE)
  /\ UNCHANGED <<vcVars, mainVars, docVars, taskSockets, authVars, convRooms, dbVars>>

DocConnect(s, u) ==
  /\ docSockets[s] = NoUser
  /\ docSockets' = [docSockets EXCEPT ![s] = u]
  /\ out' = <<>>
  /\ last' = Inbound(DOCS, "connection", s, NoData, FALSE)
  /\ UNCHANGED <<vcVars, mainVars, sigVars, docRooms, taskSockets, authVars, convRooms, dbVars>>

\* join-document joins `doc:${docId}` and logs; it emits nothing
JoinDocument(s, docId) ==
  /\ docSockets[s] # NoUser
  /\ docRooms' = SocketJoin(docRooms, docId, s)
  /\ out' = <<>>
  /\ last' = Inbound(DOCS, "join-document", s, [docId |-> docId], FALSE)
  /\ UNCHANGED <<vcVars, mainVars, sigVars, docSockets, taskSockets, authVars, convRooms, dbVars>>

LeaveDocument(s, docId) ==
  /\ docSockets[s] # NoUser
  /\ docRooms' = SocketLeave(docRooms, docId, s)
  /\ out' = <<>>
  /\ last' = Inbound(DOCS, "leave-document", s, [docId |-> docId], FALSE)
  /\ UNCHANGED <<vcVars, mainVars, sigVars, docSockets, taskSockets, authVars, convRooms, dbVars>>

\* document-update relays data as it came
DocumentUpdate(s, data) ==
  /\ docSockets[s] # NoUser
  /\ IF ~Destructures(data) THEN ThrewIn(DOCS, "document-update", s, data)
     ELSE /\ out' = << Emit("document-update",
                            SocketTo(docRooms, Field(data, "docId"), s), data) >>
          /\ last' = Inbound(DOCS, "document-update", s, data, FALSE)
          /\ UNCHANGED <<vcVars, mainVars, otherVars>>

\* cursor-update relays { user_id, user_name, ...data }
CursorUpdate(s, data) ==
  /\ docSockets[s] # NoUser
  /\ IF ~Destructures(data) THEN ThrewIn(DOCS, "cursor-update", s, data)
     ELSE /\ out' = << Emit("cursor-update",
                            SocketTo(docRooms, Field(data, "docId"), s),
                            [x \in DOMAIN data \cup {"user_id", "user_name"} |->
                               IF x \in DOMAIN data THEN data[x]
                               ELSE IF x = "user_id" THEN docSockets[s].id
                               ELSE NameOrEmail(docSockets[s])]) >>
          /\ last' = Inbound(DOCS, "cursor-update", s, data, FALSE)
          /\ UNCHANGED <<vcVars, mainVars, otherVars>>

\* /docs registers no disconnect handler; the adapter empties the socket's rooms
DocDisconnect(s) ==
  /\ docSockets[s] # NoUser
  /\ docSockets' = [docSockets EXCEPT ![s] = NoUser]
  /\ docRooms' = LeaveAll(docRooms, s)
  /\ out' = <<>>
  /\ last' = Inbound(DOCS, "disconnect", s, NoData, FALSE)
  /\ UNCHANGED <<vcVars, mainVars, sigVars, taskSockets, authVars, convRooms, dbVars>>

SigData(ev) == {[x \in {"roomId", ev} |-> IF x = "roomId" THEN r ELSE "sdp"] : r \in RoomIds}
DocData == {[docId |-> d, update |-> "u"] : d \in DocIds}

\* the rooms of the /signaling and /docs namespaces
NextRooms ==
  \/ \E s \in SocketIds : SigConnect(s, TokenUser(s))
  \/ \E s \in SocketIds, r \in RoomIds : JoinRoom(s, r)
  \/ \E s \in SocketIds, r \in RoomIds : LeaveRoom(s, r)
  \/ \E s \in SocketIds, data \in SigData("offer") : Offer(s, data)
  \/ \E s \in SocketIds, data \in SigData("answer") : Answer(s, data)
  \/ \E s \in SocketIds : SigDisconnect(s)
  \/ \E s \in SocketIds : DocConnect(s, TokenUser(s))
  \/ \E s \in SocketIds, d \in DocIds : JoinDocument(s, d)
  \/ \E s \in SocketIds, d \in DocIds : LeaveDocument(s, d)
  \/ \E s \in SocketIds, data \in DocData : DocumentUpdate(s, data)
  \/ \E s \in SocketIds, data \in DocData : CursorUpdate(s, data)
  \/ \E s \in SocketIds : DocDisconnect(s)

SpecRooms == Init /\ [][NextRooms]_vars

\* what last' says happened to socket s and room r of namespace nsp
Did(nsp, ev, s, field, r) ==
  /\ last'.nsp = nsp /\ last'.event = ev /\ last'.socket = s /\ ~last'.threw
  /\ last'.data[field] = r

Closed(nsp, s) == last'.nsp = nsp /\ last'.event = "disconnect" /\ last'.socket = s

\* C11: after any sequence of join-room / leave-room (join-document /
\* leave-document) events of one connection on one room, the connection is
\* a member exactly if the last of them was a join: every join makes it a
\* member, every leave makes it a non-member, and nothing else but its own
\* disconnect changes its membership.
C11_MembershipFollowsLastEvent ==
  [][ /\ \A s \in SocketIds, r \in RoomIds :
           IF Did(SIGNALING, "join-room", s, "roomId", r) THEN s \in sigRooms'[r]
           ELSE IF Did(SIGNALING, "leave-room", s, "roomId", r) \/ Closed(SIGNALING, s)
                THEN s \notin sigRooms'[r]
           ELSE (s \in sigRooms'[r]) = (s \in sigRooms[r])
      /\ \A s \in SocketIds, d \in DocIds :
           IF Did(DOCS, "join-document", s, "docId", d) THEN s \in docRooms'[d]
           ELSE IF Did(DOCS, "leave-document", s, "docId", d) \/ Closed(DOCS, s)
                THEN s \notin docRooms'[d]
           ELSE (s \in docRooms'[d]) = (s \in docRooms[d])
    ]_vars

\* a member of two rooms leaves one of them, which another socket stays in
C11_Witness ==
  /\ last.nsp = SIGNALING /\ last.event = "leave-room"
  /\ last.socket \notin sigRooms[last.data.roomId]
  /\ sigRooms[last.data.roomId] # {}
  /\ \E r \in RoomIds \ {last.data.roomId} : last.socket \in sigRooms[r]

\* C12: a leave-room (or leave-meeting) of a connection that is not a member
\* of the room changes no membership and delivers no user-left /
\* participant-left notice to anyone.
C12_LeaveNonMemberIsNoOp ==
  [][ /\ \A s \in SocketIds, r \in RoomIds :
           (Did(SIGNALING, "leave-room", s, "roomId", r) /\ s \notin sigRooms[r]) =>
             /\ sigRooms' = sigRooms
             /\ \A i \in DOMAIN out' : out'[i].to = {}
      /\ \A s \in SocketIds, m \in MeetingIds :
           (Did(VC, "leave-meeting", s, "meetingId", m) /\ s \notin rooms[m]) =>
             /\ rooms' = rooms
             /\ \A i \in DOMAIN out' : out'[i].to = {}
    ]_vars

\* ================================================================ /tasks

TaskConnect(s, u) ==
  /\ taskSockets[s] = NoUser
  /\ taskSockets' = [taskSockets EXCEPT ![s] = u]
  /\ out' = <<>>
  /\ last' = Inbound(TASKS, "connection", s, NoData, FALSE)
  /\ UNCHANGED <<vcVars, mainVars, sigVars, docVars, authVars, convRooms, dbVars>>

\* task-updated / task-created / task-deleted: socket.broadcast.emit(ev, data);
\* an undefined data is passed on as it is
TaskRelay(ev, s, data) ==
  /\ taskSockets[s] # NoUser
  /\ out' = << Emit(ev, BroadcastEmit(taskSockets, s), data) >>
  /\ last' = Inbound(TASKS, ev, s, data, FALSE)
  /\ UNCHANGED <<vcVars, mainVars, otherVars>>

TaskUpdated(s, data) == TaskRelay("task-updated", s, data)
TaskCreated(s, data) == TaskRelay("task-created", s, data)
TaskDeleted(s, data) == TaskRelay("task-deleted", s, data)

\* /tasks registers no disconnect handler
TaskDisconnect(s) ==
  /\ taskSockets[s] # NoUser
  /\ taskSockets' = [taskSockets EXCEPT ![s] = NoUser]
  /\ out' = <<>>
  /\ last' = Inbound(TASKS, "disconnect", s, NoData, FALSE)
  /\ UNCHANGED <<vcVars, mainVars, sigVars, docVars, authVars, convRooms, dbVars>>

\* a task event names the task and the team whose board shows it
TaskData == {[taskId |-> "t1", teamId |-> "T1"]}

NextTasks ==
  \/ \E s \in MainSocketIds, u \in Users : TaskConnect(s, u)
  \/ \E s \in MainSocketIds, data \in TaskData : TaskUpdated(s, data)
  \/ \E s \in MainSocketIds, data \in TaskData : TaskCreated(s, data)
  \/ \E s \in MainSocketIds, data \in TaskData : TaskDeleted(s, data)
  \/ \E s \in MainSocketIds : TaskDisconnect(s)

SpecTasks == Init /\ [][NextTasks]_vars

TaskEvents == {"task-updated", "task-created", "task-deleted"}
DocEvents == {"document-update", "cursor-update"}

\* the members of the one room that the payload of the last event names; no
\* handler of /tasks ever joins a socket to a room, so there it has no member
RoomNamed ==
  CASE last.nsp = DOCS -> docRooms[Field(last.data, "docId")]
    [] last.nsp = TASKS -> {}

\* C13: but for user-online / user-offline, what an inbound event makes the
\* server emit reaches only members of the one room its payload names,
\* never the whole namespace; so for task-updated / created / deleted.
C13_RelaysAreRoomScoped ==
  ( /\ ~last.threw
    /\ \/ last.nsp = TASKS /\ last.event \in TaskEvents
       \/ last.nsp = DOCS /\ last.event \in DocEvents )
  => \A i \in DOMAIN out : out[i].to \subseteq RoomNamed

\* ====================================================== malformed payloads

\* a payload object that carries none of the fields the handler reads: {}
EmptyPayload == [x \in {} |-> Undefined]

\* join-meeting payloads: well formed, without meetingId, and no payload at all
MalformedJoinData == {[meetingId |-> "M1"], EmptyPayload, NoData}
\* offer / answer payloads: well formed, without roomId, and no payload at all
MalformedSigData(ev) == SigData(ev) \cup {[x \in {ev} |-> "sdp"], NoData}

NextMalformed ==
  \/ \E s \in SocketIds : VcConnect(s, TokenUser(s))
  \/ \E s \in SocketIds, data \in MalformedJoinData : JoinMeeting(s, data)
  \/ \E s \in SocketIds : VcDisconnect(s)
  \/ \E s \in SocketIds : SigConnect(s, TokenUser(s))
  \/ \E s \in SocketIds, data \in MalformedSigData("offer") : Offer(s, data)
  \/ \E s \in SocketIds, data \in MalformedSigData("answer") : Answer(s, data)

SpecMalformed == Init /\ [][NextMalformed]_vars

\* C14: an inbound event whose payload lacks the room / meeting id, or that
\* has no payload, is dropped: no exception, no new entry in the meeting
\* store, no new room membership, nothing delivered to any connection.
C14_MalformedDropped ==
  [][ ( \/ /\ last'.nsp = VC /\ last'.event = "join-meeting"
           /\ Field(last'.data, "meetingId") = Undefined
        \/ /\ last'.nsp = SIGNALING /\ last'.event \in {"offer", "answer"}
           /\ Field(last'.data, "roomId") = Undefined )
      => /\ ~last'.threw
         /\ meetingParticipants' = meetingParticipants
         /\ rooms' = rooms /\ sigRooms' = sigRooms
         /\ \A i \in DOMAIN out' : out'[i].to = {}
    ]_vars

\* ================================================= a client's two sockets

\* A client k holds one socket in the main namespace and one in
\* /video-conference (the label k names both). Each namespace has its own
\* 'disconnect' listener and each socket is closed on its own, so nothing
\* orders the two listeners.
NextClient ==
  \/ \E s \in SocketIds : MainConnect(s, TokenUser(s))
  \/ \E s \in SocketIds : VcConnect(s, TokenUser(s))
  \/ \E s \in SocketIds, data \in MeetingData : JoinMeeting(s, data)
  \/ \E s \in SocketIds : VcDisconnect(s)
  \/ \E s \in SocketIds : MainDisconnect(s)

SpecClient == Init /\ [][NextClient]_vars

\* C15: when a client's presence record is removed and user-offline is
\* broadcast, the removal of its meeting participant records has completed.
C15_MeetingCleanupBeforePresence ==
  (last.nsp = MAIN /\ last.event = "disconnect") =>
    MeetingsOf(meetingParticipants, last.socket) = {}

\* ================================================== handshake (voice.js)

\* the environments the process can start in
Configs == [supabase : BOOLEAN, allowAnon : BOOLEAN]

\* socket.handshake.auth.token: absent, one the oracle refuses, Ann's token
Tokens == {Undefined, "bad", "tokAnn"}

\* supabase.auth.getUser(token): the principal, NoUser for { user: null } or error
GetUser(token) == IF token = "tokAnn" THEN UserAnn ELSE NoUser

\* the principal the dev bypass attaches to every socket
AnonUser ==
  [ id |-> "00000000-0000-0000-0000-000000000001",
    email |-> <<"a","n","o","n","@","e","x","a","m","p","l","e",".","c","o","m">>,
    full_name |-> <<"A","n","o","n","y","m","o","u","s"," ","D","e","v">> ]

Admit(user) == [admitted |-> TRUE, user |-> user]
Reject == [admitted |-> FALSE, user |-> NoUser]

\* mutant of AuthenticateSocket: the bypass does not look at ALLOW_ANON
AuthenticateSocketAlwaysAnon(cfg, token) ==
  IF ~cfg.supabase THEN Admit(AnonUser)
  ELSE IF token = Undefined THEN Reject
  ELSE IF GetUser(token) = NoUser THEN Reject
  ELSE Admit(GetUser(token))

\* authenticateSocket: next() admits the socket, next(new Error(..)) rejects it
AuthenticateSocket(cfg, token) ==
  IF ~cfg.supabase
  THEN IF cfg.allowAnon THEN Admit(AnonUser) ELSE Reject
  ELSE IF token = Undefined THEN Reject
  ELSE IF GetUser(token) = NoUser THEN Reject
  ELSE Admit(GetUser(token))

ConnectedIn(nsp, s) == IF nsp = MAIN THEN MainConnected(s) ELSE Connected(s)

\* nsp.use(authenticateSocket): the middleware runs once for a new socket (a
\* socket id is never handed out twice here); when it calls next() socket.io
\* emits 'connection' with no further input from the client, when it calls
\* next(err) the socket is refused and no listener runs
Handshake(nsp, s, token) ==
  /\ auth[nsp][s] = NoHandshake
  /\ LET r == AuthenticateSocket(config, token) IN
       /\ auth' = [auth EXCEPT ![nsp][s] =
                     [token |-> token, admitted |-> r.admitted, user |-> r.user]]
       /\ IF r.admitted
          THEN IF nsp = MAIN THEN MainConnection(s, r.user) ELSE VcConnection(s, r.user)
          ELSE /\ out' = <<>>
               /\ last' = Inbound(nsp, "handshake", s, [token |-> token], FALSE)
               /\ UNCHANGED <<vcVars, mainVars, sigVars, docVars, taskSockets, config, convRooms, dbVars>>

AuthMeetingData == {[meetingId |-> "M1"]}
AuthOfferData == {[meetingId |-> "M1", offer |-> "sdp"]}

\* sockets enter the main namespace and /video-conference only through the
\* handshake
NextAuth ==
  \/ \E nsp \in {MAIN, VC}, s \in SocketIds, token \in Tokens : Handshake(nsp, s, token)
  \/ \E s \in SocketIds, data \in AuthMeetingData : JoinMeeting(s, data)
  \/ \E s \in SocketIds, data \in AuthOfferData : WebrtcOffer(s, data)

InitAuth == \E cfg \in Configs : InitConfig(cfg)

SpecAuth == InitAuth /\ [][NextAuth]_vars

\* the token is missing, or the oracle refuses it
BadOrMissing(token) == token = Undefined \/ GetUser(token) = NoUser

\* the socket never entered the namespace: no presence record, no room
\* membership, no participant record, and no event of its own was handled
Untouched(nsp, s) ==
  /\ ~ConnectedIn(nsp, s)
  /\ nsp = MAIN => \A k \in DOMAIN onlineUsers : onlineUsers[k].socketId # s
  /\ nsp = VC => /\ \A m \in MeetingKeys : s \notin rooms[m]
                 /\ \A m \in DOMAIN meetingParticipants :
                      s \notin DOMAIN meetingParticipants[m]
  /\ ~(last.nsp = nsp /\ last.socket = s /\ last.event \notin {"none", "handshake"})

DevBypass == ~config.supabase /\ config.allowAnon

\* the sockets whose handshake has run
Shook == {p \in {MAIN, VC} \X SocketIds : auth[p[1]][p[2]] # NoHandshake}

\* C16 (as stated): a socket whose handshake token is missing or fails
\* verification is rejected: it has no presence record, room membership or
\* participant record, and no event it sends is handled.
C16_BadTokenRejected ==
  \A nsp \in {MAIN, VC}, s \in SocketIds :
    BadOrMissing(auth[nsp][s].token) => Untouched(nsp, s)

\* C16 (amended): outside the dev bypass (no Supabase client and
\* ALLOW_ANON=true), a socket whose token is missing or fails verification
\* is rejected and stays untouched; under the dev bypass every socket is
\* admitted, whatever its token, as the anonymous principal.
C16_BadTokenRejectedUnlessDevBypass ==
  \A nsp \in {MAIN, VC}, s \in SocketIds :
    IF DevBypass
    THEN <<nsp, s>> \in Shook =>
           auth[nsp][s].admitted /\ auth[nsp][s].user = AnonUser
    ELSE BadOrMissing(auth[nsp][s].token) => Untouched(nsp, s)

\* production: a socket with a refused token was just rejected while another
\* socket, admitted with a good token, sits in a meeting
C16_Witness ==
  /\ config = Production
  /\ last.event = "handshake"
  /\ last.data.token = "bad"
  /\ ~auth[last.nsp][last.socket].admitted
  /\ \E s \in SocketIds : HasRecord(meetingParticipants, "M1", s)

\* ================================================ the meeting store (cont.)

\* C17: every meeting id the store holds maps to a Map with at least one
\* participant record.
C17_NoEmptyMeeting ==
  \A m \in DOMAIN meetingParticipants : DOMAIN meetingParticipants[m] # {}

\* a disconnect took the only record of the only meeting, and the store is empty
C17_Witness ==
  /\ Handled("disconnect")
  /\ Len(out) = 1
  /\ meetingParticipants = EmptyMap

\* C18: a meeting's Map holds at most one record per connection, each under
\* the key equal to the record's own connection id, and each for a
\* connection still connected to /video-conference.
C18_RecordsKeyedByLiveConnection ==
  \A m \in DOMAIN meetingParticipants :
    /\ \A k \in DOMAIN meetingParticipants[m] :
         /\ meetingParticipants[m][k].id = k
         /\ k \in SocketIds /\ Connected(k)
    /\ \A k1, k2 \in DOMAIN meetingParticipants[m] :
         meetingParticipants[m][k1].id = meetingParticipants[m][k2].id => k1 = k2

\* a connection is in both meetings, one of which it shares, after another
\* connection's disconnect
C18_Witness ==
  /\ Handled("disconnect")
  /\ \E c \in SocketIds \ {last.socket} :
       \A m \in MeetingIds : HasRecord(meetingParticipants, m, c)

\* C20: peer-connected from c, which has a record in M, sets the peer id of
\* c's own record, leaves every other record of every meeting unchanged, and
\* relays {participantId: c, peerId} to the members of meeting:M other than c.
C20_PeerConnectedOwnRecordOnly ==
  [][ (HandledNext("peer-connected")
        /\ HasRecord(meetingParticipants, last'.data.meetingId, last'.socket)) =>
        LET c == last'.socket
            m == last'.data.meetingId
            peerId == last'.data.peerId
            old == meetingParticipants
            new == meetingParticipants'
        IN  /\ DOMAIN new = DOMAIN old
            /\ \A m2 \in DOMAIN new :
                 /\ DOMAIN new[m2] = DOMAIN old[m2]
                 /\ \A k \in DOMAIN new[m2] :
                      new[m2][k] = IF m2 = m /\ k = c
                                   THEN [old[m][c] EXCEPT !.peer_id = peerId]
                                   ELSE old[m2][k]
            /\ out' = << Emit("peer-connected", rooms[m] \ {c},
                              [participantId |-> c, peerId |-> peerId]) >>
    ]_vars

\* the payload names another connection; the sender's record carries the peer
\* id, the other member's record does not, and the relay reached that member
C20_Witness ==
  /\ Handled("peer-connected")
  /\ last.data.participantId # last.socket
  /\ HasRecord(meetingParticipants, last.data.meetingId, last.socket)
  /\ meetingParticipants[last.data.meetingId][last.socket].peer_id = last.data.peerId
  /\ \E r \in OtherRecords(meetingParticipants, last.data.meetingId, last.socket) :
       r.peer_id = Null /\ r.id \in out[1].to
  /\ last.socket \notin out[1].to

\* ========================================================== joined notices

\* the members of the room other than the joiner were each sent one notice
\* by the join, and the joiner none
JoinNotified(members, s) ==
  /\ s \in members
  /\ \A i \in DOMAIN out : s \notin out[i].to
  /\ members \ {s} # {} =>
       \E i \in DOMAIN out :
         /\ out[i].to = members \ {s}
         /\ \A j \in DOMAIN out : j # i => out[j].to = {}

\* C19: a join on a room (join-room on /signaling, join-document on /docs)
\* adds the connection to the room and delivers a joined notification to
\* every other current member of the room and none to the joiner.
C19_JoinNotifiesOthers ==
  /\ (last.nsp = SIGNALING /\ last.event = "join-room") =>
       JoinNotified(sigRooms[last.data.roomId], last.socket)
  /\ (last.nsp = DOCS /\ last.event = "join-document") =>
       JoinNotified(docRooms[last.data.docId], last.socket)

\* ================================ POST /:meetingId/join (routes/meetings.js)

\* Every `await supabase...` hands control back to the event loop, so a
\* handler is one action per query, and handlers of different requests
\* interleave between their queries.  `ok` says whether the query succeeded.

\* a row of the meetings table; its host is Ann
MeetingRow(status, password, max) ==
  [ id |-> "m1", meeting_id |-> "M1", host_id |-> UserAnn.id,
    meeting_status |-> status, password |-> password, max_participants |-> max ]

\* res.status(code).json({ error }) / res.json(..): the handler is over
Respond(q, code, body) ==
  reqs' = [reqs EXCEPT ![q] = [x \in DOMAIN @ \cup {"pc", "res"} |->
                                 IF x = "pc" THEN "done"
                                 ELSE IF x = "res" THEN [status |-> code, body |-> body]
                                 ELSE @[x]]]

\* the handler goes on to its next query
Goto(q, pc) == reqs' = [reqs EXCEPT ![q].pc = pc]

RestStep == out' = <<>> /\ UNCHANGED <<vcVars, mainVars, sigVars, docVars, taskSockets, authVars, convRooms, last>>

\* .from('meeting_participants') ... .eq('meeting_id', id).eq('user_id', uid)
RowsOf(tables, meetingPk, userId) ==
  {r \in tables.participants : r.meeting_id = meetingPk /\ r.user_id = userId}

\* .select('*', { count: 'exact', head: true }).eq('meeting_id', id).is('left_at', null)
ActiveCount(tables, meetingPk) ==
  Cardinality({r \in tables.participants : r.meeting_id = meetingPk /\ r.left_at = Null})

\* the request arrives and the meeting is selected by its code; then the
\* checks on the meeting row
JoinSelectMeeting(q, u, password, code, ok) ==
  /\ reqs[q] = Idle
  /\ LET found == {m \in db.meetings : m.meeting_id = code}
         req == [pc |-> "count", route |-> "join", user |-> u, password |-> password,
                 code |-> code, before |-> {}]
     IN  IF ~ok THEN reqs' = [reqs EXCEPT ![q] =
                       [req EXCEPT !.pc = "done"] @@ ("res" :> [status |-> 500, body |-> "Database error"])]
         ELSE IF found = {} THEN reqs' = [reqs EXCEPT ![q] =
                       [req EXCEPT !.pc = "done"] @@ ("res" :> [status |-> 404, body |-> "Meeting not found"])]
         ELSE LET meeting == CHOOSE m \in found : TRUE
                  full == [req EXCEPT !.before = RowsOf(db, meeting.id, u.id)]
                            @@ ("meeting" :> meeting)
              IN  IF meeting.meeting_status = "ended"
                  THEN reqs' = [reqs EXCEPT ![q] = [full EXCEPT !.pc = "done"]
                                  @@ ("res" :> [status |-> 400, body |-> "Meeting has ended"])]
                  ELSE IF meeting.password # Null /\ meeting.password # password
                  THEN reqs' = [reqs EXCEPT ![q] = [full EXCEPT !.pc = "done"]
                                  @@ ("res" :> [status |-> 401, body |-> "Incorrect meeting password"])]
                  ELSE reqs' = [reqs EXCEPT ![q] = full]
  /\ UNCHANGED db
  /\ RestStep

\* mutant of AfterCount: the clean-up delete is made with the count, before the
\* capacity check
AfterCountCleansUp(tables, meetingPk, userId) ==
  [tables EXCEPT !.participants = @ \ RowsOf(tables, meetingPk, userId)]

\* the tables after the count query: a head select changes no row
AfterCount(tables, meetingPk, userId) == tables

\* the count of the rows with left_at null, then the capacity check; a failed
\* count yields null, and null >= max_participants is false
JoinCount(q, ok) ==
  /\ reqs[q].pc = "count" /\ reqs[q].route = "join"
  /\ db' = AfterCount(db, reqs[q].meeting.id, reqs[q].user.id)
  /\ IF ok /\ ActiveCount(db, reqs[q].meeting.id) >= reqs[q].meeting.max_participants
     THEN Respond(q, 400, "Meeting is full")
     ELSE Goto(q, "delete")
  /\ RestStep

\* the clean-up delete of the requester's rows; its error is only logged
JoinDelete(q, ok) ==
  /\ reqs[q].pc = "delete" /\ reqs[q].route = "join"
  /\ db' = IF ok THEN [db EXCEPT !.participants =
                         @ \ RowsOf(db, reqs[q].meeting.id, reqs[q].user.id)]
           ELSE db
  /\ Goto(q, "insert")
  /\ RestStep

\* the row the handler inserts
NewParticipant(id, meeting, u) ==
  [ id |-> id, meeting_id |-> meeting.id, user_id |-> u.id,
    user_name |-> ResolveName(u), user_email |-> u.email,
    role |-> IF meeting.host_id = u.id THEN "host" ELSE "participant",
    left_at |-> Null ]

\* the insert; `if (insertError) throw insertError` ends in the catch's 500
JoinInsert(q, ok) ==
  /\ reqs[q].pc = "insert" /\ reqs[q].route = "join"
  /\ IF ok
     THEN /\ db' = [db EXCEPT !.participants =
                      @ \cup {NewParticipant(db.nextId, reqs[q].meeting, reqs[q].user)},
                    !.nextId = @ + 1]
          /\ IF reqs[q].meeting.meeting_status = "scheduled"
             THEN Goto(q, "activate")
             ELSE Respond(q, 200, "participant")
     ELSE /\ UNCHANGED db
          /\ Respond(q, 500, "Failed to join meeting")
  /\ RestStep

\* a scheduled meeting is made active; the result of the update is not read
JoinActivate(q, ok) ==
  /\ reqs[q].pc = "activate" /\ reqs[q].route = "join"
  /\ db' = IF ok
           THEN [db EXCEPT !.meetings =
                   {IF m.id = reqs[q].meeting.id
                    THEN [m EXCEPT !.meeting_status = "active"] ELSE m : m \in @}]
           ELSE db
  /\ Respond(q, 200, "participant")
  /\ RestStep

\* the meetings table a run starts from, and what a request can carry
JoinStatuses == {"scheduled", "ended"}
MeetingPasswords == {Null, "pw"}
MaxParticipantsOf == {1, 2}
JoinPasswords == {Undefined, "pw"}
MeetingCodes == {"M1", "M0"}

InitJoin ==
  \E status \in JoinStatuses, password \in MeetingPasswords, max \in MaxParticipantsOf :
    InitState(Production, [EmptyDb EXCEPT !.meetings = {MeetingRow(status, password, max)}])

NextJoin ==
  \/ \E q \in ReqIds, u \in Users, password \in JoinPasswords, code \in MeetingCodes,
        ok \in BOOLEAN : JoinSelectMeeting(q, u, password, code, ok)
  \/ \E q \in ReqIds, ok \in BOOLEAN : JoinCount(q, ok)
  \/ \E q \in ReqIds, ok \in BOOLEAN : JoinDelete(q, ok)
  \/ \E q \in ReqIds, ok \in BOOLEAN : JoinInsert(q, ok)
  \/ \E q \in ReqIds, ok \in BOOLEAN : JoinActivate(q, ok)

SpecJoin == InitJoin /\ [][NextJoin]_vars

\* the responses that reject a join for the meeting's state or capacity
JoinRejections == {"Meeting has ended", "Incorrect meeting password", "Meeting is full"}

\* request q is answered in this step
Answered(q) == reqs[q].pc # "done" /\ reqs'[q].pc = "done"

\* C21: a join rejected because the meeting has ended, the password is wrong
\* or the meeting is full answers the requester only and changes no row: the
\* step of the rejection leaves the tables alone, the request had made no
\* write before it, and no other request is touched.
C21_RejectedJoinChangesNothing ==
  [][ \A q \in ReqIds :
        (Answered(q) /\ reqs'[q].res.body \in JoinRejections) =>
          /\ db' = db
          /\ reqs[q].pc \in {"idle", "count"}
          /\ \A q2 \in ReqIds \ {q} : reqs'[q2] = reqs[q2]
    ]_vars

\* a join was refused as full while the meeting holds another user's row
C21_Witness ==
  \E q \in ReqIds :
    /\ reqs[q].pc = "done"
    /\ reqs[q].res.body = "Meeting is full"
    /\ \E r \in db.participants : r.user_id # reqs[q].user.id

\* C22: a join never leaves participant state half-applied: when the insert
\* fails, the rows the requester had for the meeting when the request
\* arrived are still in the table.
C22_FailedJoinKeepsOldRow ==
  \A q \in ReqIds :
    (reqs[q].pc = "done" /\ reqs[q].res.body = "Failed to join meeting") =>
      reqs[q].before \subseteq db.participants

\* C28: the rows of a meeting with left_at null never outnumber the meeting's
\* max_participants.
C28_CapacityNeverExceeded ==
  \A m \in db.meetings : ActiveCount(db, m.id) <= m.max_participants

\* ============================================ notices of the meeting rooms

\* C23: per join of c to M the other members get at most one participant-left
\* for c: when c, whose only record is in M, leaves M and then disconnects,
\* no member who got the participant-left of the leave gets one from the
\* disconnect.
C23_OneParticipantLeftPerJoin ==
  [][ ( /\ Handled("leave-meeting")
        /\ HandledNext("disconnect")
        /\ last'.socket = last.socket
        /\ MeetingsOf(meetingParticipants, last.socket) = {last.data.meetingId} ) =>
        \A x \in out[1].to : \A i \in DOMAIN out' : x \notin out'[i].to
    ]_vars

\* C27: a second join-meeting for M by a connection that has a record in M
\* leaves the number of records of M unchanged, keeps the record's peer id,
\* and delivers no participant-joined notice to the other members.
C27_RejoinIsIdempotent ==
  [][ (HandledNext("join-meeting")
        /\ HasRecord(meetingParticipants, last'.data.meetingId, last'.socket)) =>
        LET c == last'.socket
            m == last'.data.meetingId
        IN  /\ Cardinality(DOMAIN meetingParticipants'[m])
                 = Cardinality(DOMAIN meetingParticipants[m])
            /\ meetingParticipants'[m][c].peer_id = meetingParticipants[m][c].peer_id
            /\ \A i \in DOMAIN out' :
                 out'[i].event = "participant-joined" => out'[i].to = {}
    ]_vars

\* ==================================== in-meeting events of /video-conference

\* `const { a, b, ...rest } = data`: the payload without the named fields
Without(data, fields) == [x \in DOMAIN data \ fields |-> data[x]]

\* { ...data, f: v }
With(data, f, v) == [x \in DOMAIN data \cup {f} |-> IF x = f THEN v ELSE data[x]]

\* 'chat-message' has two listeners, run in the order they were registered:
\* the first relays the payload without meetingId, the second the payload
ChatMessage(s, data) ==
  /\ Connected(s)
  /\ IF ~Destructures(data) THEN Threw("chat-message", s, data)
     ELSE LET to == SocketTo(rooms, Field(data, "meetingId"), s) IN
       /\ out' = << Emit("chat-message", to, Without(data, {"meetingId"})),
                    Emit("chat-message", to, data) >>
       /\ last' = Inbound(VC, "chat-message", s, data, FALSE)
       /\ UNCHANGED <<vcVars, mainVars, otherVars>>

\* 'participant-update' has two listeners too: { id: participantId, ...updates },
\* then the payload as it came
ParticipantUpdate(s, data) ==
  /\ Connected(s)
  /\ IF ~Destructures(data) THEN Threw("participant-update", s, data)
     ELSE LET to == SocketTo(rooms, Field(data, "meetingId"), s) IN
       /\ out' = << Emit("participant-updated", to,
                         With(Without(data, {"participantId", "meetingId"}),
                              "id", Field(data, "participantId"))),
                    Emit("participant-updated", to, data) >>
       /\ last' = Inbound(VC, "participant-update", s, data, FALSE)
       /\ UNCHANGED <<vcVars, mainVars, otherVars>>

Reaction(s, data) ==
  /\ Connected(s)
  /\ IF ~Destructures(data) THEN Threw("reaction", s, data)
     ELSE /\ out' = << Emit("reaction", SocketTo(rooms, Field(data, "meetingId"), s),
                            With(Without(data, {"meetingId"}),
                                 "user_name", ResolveName(vcSockets[s]))) >>
          /\ last' = Inbound(VC, "reaction", s, data, FALSE)
          /\ UNCHANGED <<vcVars, mainVars, otherVars>>

\* mute-participant and remove-participant relay the payload under another name
Moderate(ev, outEv, s, data) ==
  /\ Connected(s)
  /\ IF ~Destructures(data) THEN Threw(ev, s, data)
     ELSE /\ out' = << Emit(outEv, SocketTo(rooms, Field(data, "meetingId"), s), data) >>
          /\ last' = Inbound(VC, ev, s, data, FALSE)
          /\ UNCHANGED <<vcVars, mainVars, otherVars>>

MuteParticipant(s, data) == Moderate("mute-participant", "participant-muted", s, data)
RemoveParticipant(s, data) == Moderate("remove-participant", "participant-removed", s, data)

ChatData == {[meetingId |-> m, text |-> "hi"] : m \in MeetingIds}
UpdateData == {[meetingId |-> m, participantId |-> SocketName[1], is_muted |-> TRUE] : m \in MeetingIds}
ReactionData == {[meetingId |-> m, emoji |-> "+1"] : m \in MeetingIds}
ModerateData == {[meetingId |-> m, participantId |-> SocketName[1]] : m \in MeetingIds}

NextEvents ==
  \/ \E s \in SocketIds : VcConnect(s, TokenUser(s))
  \/ \E s \in SocketIds, data \in MeetingData : JoinMeeting(s, data)
  \/ \E s \in SocketIds, data \in ChatData \cup {NoData} : ChatMessage(s, data)
  \/ \E s \in SocketIds, data \in UpdateData : ParticipantUpdate(s, data)
  \/ \E s \in SocketIds, data \in ReactionData : Reaction(s, data)
  \/ \E s \in SocketIds, data \in ModerateData : MuteParticipant(s, data)
  \/ \E s \in SocketIds, data \in ModerateData : RemoveParticipant(s, data)
  \/ \E s \in SocketIds : VcDisconnect(s)

SpecEvents == Init /\ [][NextEvents]_vars

\* how many emits of event ev of the last handler reached connection x
Received(x, ev) == Cardinality({i \in DOMAIN out : out[i].event = ev /\ x \in out[i].to})

\* C24: an inbound chat-message (participant-update) results in exactly one
\* outbound chat-message (participant-updated) per other member of meeting:M.
C24_OneOutboundPerInbound ==
  /\ Handled("chat-message") =>
       \A x \in rooms[last.data.meetingId] \ {last.socket} : Received(x, "chat-message") = 1
  /\ Handled("participant-update") =>
       \A x \in rooms[last.data.meetingId] \ {last.socket} :
         Received(x, "participant-updated") = 1

\* the events of /video-conference that are relayed to a meeting's room
MeetingRelays == {"chat-message", "participant-update", "reaction",
                  "mute-participant", "remove-participant"}

\* C25: a relayed event that reaches members of room meeting:M was sent by a
\* connection that is a member of that room when it sends it.
C25_OnlyMembersRelay ==
  (last.nsp = VC /\ last.event \in MeetingRelays /\ ~last.threw
     /\ \E i \in DOMAIN out : out[i].to # {}) =>
    last.socket \in rooms[last.data.meetingId]

\* ================================== conversation events, main namespace

\* mutant of ConversationTo: socket.broadcast.emit, which reaches every other
\* socket of the namespace
ConversationBroadcast(sockets, roomsNow, c, s) == BroadcastEmit(sockets, s)

\* socket.to(`conversation:${c}`): the members of the room other than the sender
ConversationTo(sockets, roomsNow, c, s) == roomsNow[c] \ {s}

\* what each conversation handler emits, and with which payload
ConversationEmit(ev, s, data) ==
  CASE ev = "send-message" -> [event |-> "new-message", payload |-> Field(data, "message")]
    [] ev = "typing" ->
         [event |-> "user-typing",
          payload |-> [userId |-> mainSockets[s].id, userEmail |-> mainSockets[s].email]]
    [] ev = "stop-typing" ->
         [event |-> "user-stop-typing",
          payload |-> [userId |-> mainSockets[s].id, userEmail |-> mainSockets[s].email]]
    [] ev = "messages-read" ->
         [event |-> "messages-read",
          payload |-> [conversationId |-> Field(data, "conversationId"),
                       messageIds |-> Field(data, "messageIds"),
                       readAt |-> Field(data, "readAt"),
                       readBy |-> mainSockets[s].id]]

\* the four handlers of the second 'connection' listener have the same shape
ConversationRelay(ev, s, data) ==
  /\ MainConnected(s)
  /\ IF ~Destructures(data) THEN ThrewIn(MAIN, ev, s, data)
     ELSE /\ out' = << Emit(ConversationEmit(ev, s, data).event,
                            ConversationTo(mainSockets, convRooms,
                                           Field(data, "conversationId"), s),
                            ConversationEmit(ev, s, data).payload) >>
          /\ last' = Inbound(MAIN, ev, s, data, FALSE)
          /\ UNCHANGED <<vcVars, mainVars, otherVars>>

SendMessage(s, data) == ConversationRelay("send-message", s, data)
Typing(s, data) == ConversationRelay("typing", s, data)
StopTyping(s, data) == ConversationRelay("stop-typing", s, data)
MessagesRead(s, data) == ConversationRelay("messages-read", s, data)

MessageData == {[conversationId |-> c, message |-> "hi"] : c \in ConversationIds}
TypingData == {[conversationId |-> c] : c \in ConversationIds}
ReadData == {[conversationId |-> c, messageIds |-> "ids", readAt |-> "t"] : c \in ConversationIds}

NextChat ==
  \/ \E s \in MainSocketIds : MainConnect(s, TokenUser(s))
  \/ \E s \in MainSocketIds, data \in MessageData \cup {NoData} : SendMessage(s, data)
  \/ \E s \in MainSocketIds, data \in TypingData : Typing(s, data)
  \/ \E s \in MainSocketIds, data \in TypingData : StopTyping(s, data)
  \/ \E s \in MainSocketIds, data \in ReadData : MessagesRead(s, data)
  \/ \E s \in MainSocketIds : MainDisconnect(s)

SpecChat == Init /\ [][NextChat]_vars

ConversationEvents == {"send-message", "typing", "stop-typing", "messages-read"}

\* C26: no handler adds a connection to a conversation room, so every
\* conversation room is empty in every state and the conversation events are
\* delivered to no connection.
C26_ConversationRoomsEmpty ==
  /\ \A c \in DOMAIN convRooms : convRooms[c] = {}
  /\ (last.nsp = MAIN /\ last.event \in ConversationEvents) =>
       \A i \in DOMAIN out : out[i].to = {}

\* a message was sent while another socket was connected, and reached nobody
C26_Witness ==
  /\ last.nsp = MAIN /\ last.event = "send-message" /\ ~last.threw
  /\ Len(out) = 1 /\ out[1].event = "new-message" /\ out[1].to = {}
  /\ \E x \in MainSocketIds \ {last.socket} : MainConnected(x)

\* ============ PATCH /:meetingId/participants/:participantId (meetings.js)

\* .update(updates): the columns the body names are overwritten
PatchRow(row, updates) ==
  [x \in DOMAIN row |-> IF x \in DOMAIN updates THEN updates[x] ELSE row[x]]

\* the request arrives and the meeting is selected by its code (.single())
PatchSelectMeeting(q, u, code, pid, updates) ==
  /\ reqs[q] = Idle
  /\ LET found == {m \in db.meetings : m.meeting_id = code}
         req == [pc |-> "participant", route |-> "patch", user |-> u, code |-> code,
                 participantId |-> pid, updates |-> updates]
     IN  IF Cardinality(found) # 1
         THEN reqs' = [reqs EXCEPT ![q] = [req EXCEPT !.pc = "done"]
                         @@ ("res" :> [status |-> 404, body |-> "Meeting not found"])]
         ELSE reqs' = [reqs EXCEPT ![q] = req @@ ("meeting" :> CHOOSE m \in found : TRUE)]
  /\ UNCHANGED db
  /\ RestStep

\* !(!isSelf && !isHost && !isCoHost), with isCoHost read from the target row
MayUpdate(meeting, participant, u) ==
  LET isHost == meeting.host_id = u.id
      isSelf == participant.user_id = u.id
      isCoHost == participant.role = "co-host"
  IN  isSelf \/ isHost \/ isCoHost

\* the target row is selected by its id alone, then the authorization check
PatchSelectParticipant(q) ==
  /\ reqs[q].pc = "participant" /\ reqs[q].route = "patch"
  /\ LET found == {r \in db.participants : r.id = reqs[q].participantId} IN
       IF found = {} THEN Respond(q, 404, "Participant not found")
       ELSE IF ~MayUpdate(reqs[q].meeting, CHOOSE r \in found : TRUE, reqs[q].user)
       THEN Respond(q, 403, "Not authorized to update this participant")
       ELSE Goto(q, "update")
  /\ UNCHANGED db
  /\ RestStep

\* the update; an error, or no row left for .single(), ends in the catch's 500
PatchUpdate(q, ok) ==
  /\ reqs[q].pc = "update" /\ reqs[q].route = "patch"
  /\ IF ok /\ \E r \in db.participants : r.id = reqs[q].participantId
     THEN /\ db' = [db EXCEPT !.participants =
                      {IF r.id = reqs[q].participantId
                       THEN PatchRow(r, reqs[q].updates) ELSE r : r \in @}]
          /\ Respond(q, 200, "participant")
     ELSE /\ UNCHANGED db
          /\ Respond(q, 500, "Failed to update participant")
  /\ RestStep

\* meeting M1 is running with its host Ann (row 1) and Bo (row 2) in it
RunningMeeting ==
  LET meeting == MeetingRow("active", Null, 2) IN
  [EmptyDb EXCEPT !.meetings = {meeting},
                  !.participants = {NewParticipant(1, meeting, UserAnn),
                                    NewParticipant(2, meeting, UserBo)},
                  !.nextId = 3]

PatchUpdates == {[role |-> "co-host"], [role |-> "participant"]}
RowIds == {1, 2}

InitPatch == InitState(Production, RunningMeeting)

NextPatch ==
  \/ \E q \in ReqIds, u \in Users, code \in MeetingCodes, pid \in RowIds,
        updates \in PatchUpdates : PatchSelectMeeting(q, u, code, pid, updates)
  \/ \E q \in ReqIds : PatchSelectParticipant(q)
  \/ \E q \in ReqIds, ok \in BOOLEAN : PatchUpdate(q, ok)

SpecPatch == InitPatch /\ [][NextPatch]_vars

\* the requester holds the co-host role in the meeting
HoldsCoHost(tables, meeting, u) ==
  \E r \in tables.participants :
    r.meeting_id = meeting.id /\ r.user_id = u.id /\ r.role = "co-host"

\* C29: a participant row is updated only when the requester is that
\* participant, the meeting's host, or holds the co-host role.
C29_OnlySelfHostOrCoHostUpdates ==
  [][ \A q \in ReqIds :
        (Answered(q) /\ reqs'[q].route = "patch" /\ reqs'[q].res.status = 200) =>
          \A r \in db.participants :
            r.id = reqs[q].participantId =>
              \/ r.user_id = reqs[q].user.id
              \/ reqs[q].meeting.host_id = reqs[q].user.id
              \/ HoldsCoHost(db, reqs[q].meeting, reqs[q].user)
    ]_vars

\* ================================== GET /signaling/:userId (routes/voice.js)

\* .eq('to_user_id', userId).eq('processed', false)
Pending(tables, userId) ==
  {r \in tables.signaling : r.to_user_id = userId /\ ~r.processed}

\* the request arrives, the caller is checked against the path, and the
\* unprocessed rows addressed to the user are selected
SignalingSelect(q, u, userId, ok) ==
  /\ reqs[q] = Idle
  /\ LET req == [pc |-> "mark", route |-> "signaling", user |-> u, userId |-> userId,
                 signaling |-> Pending(db, userId)]
         done(code, body) == [req EXCEPT !.pc = "done"]
                               @@ ("res" :> [status |-> code, body |-> body])
     IN  IF userId # u.id
         THEN reqs' = [reqs EXCEPT ![q] =
                         done(403, "Not authorized to access signaling data")]
         ELSE IF ~ok
         THEN reqs' = [reqs EXCEPT ![q] = done(500, "Failed to fetch signaling data")]
         ELSE IF req.signaling = {}
         THEN reqs' = [reqs EXCEPT ![q] = done(200, {})]
         ELSE reqs' = [reqs EXCEPT ![q] = req]
  /\ UNCHANGED db
  /\ RestStep

\* .update({ processed: true }).in('id', signalingIds), whose result is not
\* read; then res.json({ signaling })
SignalingMark(q, ok) ==
  /\ reqs[q].pc = "mark" /\ reqs[q].route = "signaling"
  /\ LET ids == {r.id : r \in reqs[q].signaling} IN
       /\ db' = IF ok
                THEN [db EXCEPT !.signaling =
                        {IF r.id \in ids THEN [r EXCEPT !.processed = TRUE] ELSE r : r \in @}]
                ELSE db
       /\ Respond(q, 200, ids)
  /\ RestStep

\* two messages wait for Ann and one for Bo
StoredSignaling ==
  [EmptyDb EXCEPT !.signaling =
     { [id |-> 1, to_user_id |-> UserAnn.id, processed |-> FALSE],
       [id |-> 2, to_user_id |-> UserAnn.id, processed |-> FALSE],
       [id |-> 3, to_user_id |-> UserBo.id, processed |-> FALSE] }]

UserIds == {u.id : u \in Users}

InitSignaling == InitState(Production, StoredSignaling)

NextSignaling ==
  \/ \E q \in ReqIds, u \in Users, userId \in UserIds, ok \in BOOLEAN :
       SignalingSelect(q, u, userId, ok)
  \/ \E q \in ReqIds, ok \in BOOLEAN : SignalingMark(q, ok)

SpecSignaling == InitSignaling /\ [][NextSignaling]_vars

\* the requests that were answered with signaling rows
Served == {q \in ReqIds : reqs[q].pc = "done" /\ reqs[q].route = "signaling"
                            /\ reqs[q].res.status = 200}

\* C30: each stored voice_signaling row is returned at most once: no two
\* requests are answered with the same row.
C30_RowReturnedAtMostOnce ==
  \A q1, q2 \in Served : q1 # q2 => reqs[q1].res.body \cap reqs[q2].res.body = {}

====
